---------------------------- MODULE Spec2Model ----------------------------
(***************************************************************************)
(* Model of the weekly music-news pipeline (main.py, src/utils.py,         *)
(* src/parser.py, src/fetchers.py).                                        *)
(*                                                                         *)
(* Strings.  A Python str is modelled as a sequence of symbols.  A symbol  *)
(* is either one reserved character (":", "/", "?", "#", "&", "=", ";",    *)
(* " ", "+"), one percent escape of a reserved character ("%20", "%2F",    *)
(* ...), or a word: a maximal run of unreserved characters                 *)
(* ([A-Za-z0-9_.-]).  Two words are never adjacent in a string, so a       *)
(* string has exactly one symbol sequence and equality of sequences is     *)
(* equality of strings.  What Python decides per character inside a word   *)
(* (lower(), startswith(), substring tests) is decided per word by the     *)
(* tables below.                                                           *)
(***************************************************************************)
EXTENDS Integers, Sequences, FiniteSets, TLC

\* The empty Python string.
EmptyStr == <<>>

\* Smallest element of a non-empty set of integers.
MinOf(S) == CHOOSE x \in S : \A y \in S : x <= y

\* Largest element of a non-empty set of integers.
MaxOf(S) == CHOOSE x \in S : \A y \in S : x >= y

\* str.find(c, from): the first index >= from holding symbol c, 0 when absent
\* (Python's -1; indices here are 1-based).
Find(s, c, from) ==
    LET idx == {i \in from..Len(s) : s[i] = c}
    IN  IF idx = {} THEN 0 ELSE MinOf(idx)

\* str.rfind(c): the last index holding symbol c, 0 when absent.
RFind(s, c) ==
    LET idx == {i \in 1..Len(s) : s[i] = c}
    IN  IF idx = {} THEN 0 ELSE MaxOf(idx)

\* s[from:] of Python, 1-based.
From(s, from) == SubSeq(s, from, Len(s))

\* s[:upto] of Python (the symbols before index upto), 1-based.
Before(s, upto) == SubSeq(s, 1, upto - 1)

\* str.lstrip() for the one whitespace symbol of the alphabet.
RECURSIVE LStrip(_)
LStrip(s) == IF s # <<>> /\ Head(s) = " " THEN LStrip(Tail(s)) ELSE s

\* str.rstrip(c).
RECURSIVE RStrip(_, _)
RStrip(s, c) ==
    IF s # <<>> /\ s[Len(s)] = c THEN RStrip(SubSeq(s, 1, Len(s) - 1), c) ELSE s

\* str.strip().
Strip(s) == RStrip(LStrip(s), " ")

\* str.lower() of one symbol: the words of the vocabulary that hold an
\* upper-case letter; every other symbol of the alphabet is already lower-case.
LowerSym(w) ==
    CASE w = "HTTP" -> "http"
      [] w = "Example.com" -> "example.com"
      [] w = "WWW.MusicWeek.com" -> "www.musicweek.com"
      [] w = "UTM_Medium" -> "utm_medium"
      [] w = "News" -> "news"
      [] w = "Login" -> "login"
      [] w = "Privacy" -> "privacy"
      [] w = "Subscribe" -> "subscribe"
      [] w = "Big" -> "big"
      [] w = "A" -> "a"
      [] OTHER -> w

\* str.lower().
Lower(s) == [i \in 1..Len(s) |-> LowerSym(s[i])]

\* The reserved characters and escapes of the alphabet: every other symbol is a word.
Reserved == {":", "/", "?", "#", "&", "=", ";", " ", "+",
             "%20", "%2F", "%3A", "%3F", "%23", "%26", "%3D", "%3B"}

\* c in scheme_chars for every character of the symbol (letters, digits, "+-.").
SchemeSym(w) ==
    \/ w = "+"
    \/ w \notin Reserved /\ w \notin {"utm_source", "UTM_Medium", "utm_medium"}

\* url[0].isalpha(): the symbol starts with a letter.
StartsAlpha(w) == w \notin Reserved /\ w \notin {"1", "2", "123"}

\* scheme in uses_netloc / uses_params, for a non-empty scheme: of the words of the
\* vocabulary only http and https are in the two lists.
UsesNetloc(scheme) == scheme \in {<<"http">>, <<"https">>}

\* urlsplit, last step: url.split("?", 1) cuts the query off the path.
SplitQuery(scheme, netloc, u, fragment) ==
    LET q == Find(u, "?", 1)
    IN  [scheme |-> scheme, netloc |-> netloc,
         path |-> IF q > 0 THEN Before(u, q) ELSE u,
         query |-> IF q > 0 THEN From(u, q + 1) ELSE EmptyStr,
         fragment |-> fragment]

\* urlsplit, fourth step: url.split("#", 1) cuts the fragment off.
SplitFragment(scheme, netloc, u) ==
    LET h == Find(u, "#", 1)
    IN  SplitQuery(scheme, netloc,
                   IF h > 0 THEN Before(u, h) ELSE u,
                   IF h > 0 THEN From(u, h + 1) ELSE EmptyStr)

\* _splitnetloc(url, 2): the index of the first of "/", "?", "#" after the "//",
\* the length plus one when there is none.
NetlocEnd(u) ==
    LET ends == {Find(u, c, 3) : c \in {"/", "?", "#"}} \ {0}
    IN  IF ends = {} THEN Len(u) + 1 ELSE MinOf(ends)

\* urlsplit, third step: after "//" the netloc runs to the first "/", "?" or "#".
SplitNetloc(scheme, u) ==
    IF Len(u) >= 2 /\ u[1] = "/" /\ u[2] = "/"
    THEN SplitFragment(scheme, SubSeq(u, 3, NetlocEnd(u) - 1), From(u, NetlocEnd(u)))
    ELSE SplitFragment(scheme, EmptyStr, u)

\* urlsplit, second step: the symbols before the first ":" are the scheme when the
\* URL starts with a letter and they are all scheme characters.
SplitScheme(u) ==
    LET i == Find(u, ":", 1)
    IN  IF i > 1 /\ StartsAlpha(u[1]) /\ (\A j \in 1..(i - 1) : SchemeSym(u[j]))
        THEN SplitNetloc(Lower(Before(u, i)), From(u, i + 1))
        ELSE SplitNetloc(EmptyStr, u)

\* urlsplit(url): [scheme, netloc, path, query, fragment].
urlsplit(url) == SplitScheme(LStrip(url))

\* _splitparams(url): the path without the parameters of its last segment.
splitparams(path) ==
    LET i == IF Find(path, "/", 1) > 0
             THEN Find(path, ";", RFind(path, "/"))
             ELSE Find(path, ";", 1)
    IN  IF i = 0 THEN path ELSE Before(path, i)

\* urlparse, after urlsplit: the parameters are cut off the path.
CutParams(r) ==
    IF (r.scheme = EmptyStr \/ UsesNetloc(r.scheme)) /\ Find(r.path, ";", 1) > 0
    THEN [r EXCEPT !.path = splitparams(r.path)]
    ELSE r

\* urlparse(url).
urlparse(url) == CutParams(urlsplit(url))

\* re.sub(r"/+", "/", path).
RECURSIVE CollapseSlashes(_)
CollapseSlashes(s) ==
    IF Len(s) < 2 THEN s
    ELSE IF s[1] = "/" /\ s[2] = "/" THEN CollapseSlashes(Tail(s))
    ELSE <<s[1]>> \o CollapseSlashes(Tail(s))

\* str.split(sep): the pieces between the occurrences of sep.
RECURSIVE Split(_, _)
Split(s, sep) ==
    LET i == Find(s, sep, 1)
    IN  IF i = 0 THEN <<s>> ELSE <<Before(s, i)>> \o Split(From(s, i + 1), sep)

\* name.replace("+", " ") followed by unquote(name), symbol by symbol.
UnquoteSym(w) ==
    CASE w = "+" -> " "
      [] w = "%20" -> " "
      [] w = "%2F" -> "/"
      [] w = "%3A" -> ":"
      [] w = "%3F" -> "?"
      [] w = "%23" -> "#"
      [] w = "%26" -> "&"
      [] w = "%3D" -> "="
      [] w = "%3B" -> ";"
      [] OTHER -> w

\* unquote(name.replace("+", " ")).
UnquotePlus(s) == [i \in 1..Len(s) |-> UnquoteSym(s[i])]

\* quote_plus, symbol by symbol: unreserved characters are kept.
QuoteSym(w) ==
    CASE w = " " -> "+"
      [] w = "/" -> "%2F"
      [] w = ":" -> "%3A"
      [] w = "?" -> "%3F"
      [] w = "#" -> "%23"
      [] w = "&" -> "%26"
      [] w = "=" -> "%3D"
      [] w = ";" -> "%3B"
      [] OTHER -> w

\* quote_plus(s).
QuotePlus(s) == [i \in 1..Len(s) |-> QuoteSym(s[i])]

\* One name=value piece of a query: name_value.split("=", 1), decoded.
ParsePiece(nv) ==
    LET e == Find(nv, "=", 1)
    IN  IF e = 0 THEN <<UnquotePlus(nv), EmptyStr>>
        ELSE <<UnquotePlus(Before(nv, e)), UnquotePlus(From(nv, e + 1))>>

\* parse_qsl(qs, keep_blank_values=True): the (name, value) pairs in order.
parse_qsl(qs) ==
    IF qs = EmptyStr THEN <<>>
    ELSE LET NonEmpty(p) == p # EmptyStr
             pieces == SelectSeq(Split(qs, "&"), NonEmpty)
         IN  [i \in 1..Len(pieces) |-> ParsePiece(pieces[i])]

\* k.lower().startswith("utm_").
StartsWithUtm(k) ==
    k # EmptyStr /\ LowerSym(k[1]) \in {"utm_source", "utm_medium"}

\* The filter of canonicalize_url: the pair is no tracking parameter.
NotTracking(kv) ==
    /\ ~StartsWithUtm(kv[1])
    /\ Lower(kv[1]) \notin {<<"fbclid">>, <<"gclid">>}

\* urlencode(pairs).
RECURSIVE urlencode(_)
urlencode(pairs) ==
    IF pairs = <<>> THEN EmptyStr
    ELSE LET one == QuotePlus(pairs[1][1]) \o <<"=">> \o QuotePlus(pairs[1][2])
         IN  IF Len(pairs) = 1 THEN one
             ELSE one \o <<"&">> \o urlencode(Tail(pairs))

\* urlunsplit, first step: "//" and the netloc go before the path when there is a
\* netloc or the scheme is one that uses a netloc.
WithNetloc(scheme, netloc, path) ==
    IF netloc # EmptyStr
       \/ (scheme # EmptyStr /\ UsesNetloc(scheme)
           /\ ~(Len(path) >= 2 /\ path[1] = "/" /\ path[2] = "/"))
    THEN <<"/", "/">> \o netloc
         \o (IF path # EmptyStr /\ path[1] # "/" THEN <<"/">> \o path ELSE path)
    ELSE path

\* urlunparse((scheme, netloc, path, "", query, "")).
urlunparse(scheme, netloc, path, query) ==
    (IF scheme # EmptyStr THEN scheme \o <<":">> ELSE <<>>)
    \o WithNetloc(scheme, netloc, path)
    \o (IF query # EmptyStr THEN <<"?">> \o query ELSE <<>>)

\* parsed.scheme.lower() or "https".
SchemeOrHttps(scheme) == IF Lower(scheme) # EmptyStr THEN Lower(scheme) ELSE <<"https">>

\* The canonical path: slashes collapsed, trailing slash stripped.
CanonPath(path) == RStrip(CollapseSlashes(path), "/")

\* The canonical query: tracking parameters dropped, the rest re-encoded in order.
CanonQuery(query) == urlencode(SelectSeq(parse_qsl(query), NotTracking))

\* A variant of the canonical form that maps every scheme to https.
FromParsedHttps(parsed) ==
    urlunparse(<<"https">>, Lower(parsed.netloc), CanonPath(parsed.path),
               CanonQuery(parsed.query))

\* canonicalize_url, after urlparse: the canonical form of the parsed URL.
FromParsed(parsed) ==
    urlunparse(SchemeOrHttps(parsed.scheme), Lower(parsed.netloc),
               CanonPath(parsed.path), CanonQuery(parsed.query))

\* canonicalize_url(url).
canonicalize_url(url) ==
    IF url = EmptyStr THEN EmptyStr ELSE FromParsed(urlparse(Strip(url)))

\* ---- substring tests, decided per word ----

\* The sensitive tokens that occur inside a word of the vocabulary (Python's
\* `token in text` is case-sensitive: an upper-case spelling holds none).
TokensIn(w) ==
    CASE w = "login" -> {"login"}
      [] w = "passwords" -> {"password"}
      [] w = "reset" -> {"reset"}
      [] w = "subscribe" -> {"subscribe"}
      [] w = "newsletter" -> {"newsletter"}
      [] w = "account" -> {"account"}
      [] w = "cookies" -> {"cookie"}
      [] w = "privacy" -> {"privacy"}
      [] w = "terms" -> {"terms"}
      [] w = "contact" -> {"contact"}
      [] OTHER -> {}

\* token in s, for a token made of letters: it lies inside one word of s.
HasToken(s, token) == \E i \in 1..Len(s) : token \in TokensIn(s[i])

\* "musicweek.com" in s.
HasMusicWeek(s) ==
    \E i \in 1..Len(s) : s[i] \in {"www.musicweek.com", "musicweek.com", "notmusicweek.com.au"}

\* "musicbusinessworldwide.com" in s.
HasMbw(s) == \E i \in 1..Len(s) : s[i] = "www.musicbusinessworldwide.com"

\* seg in s, for a segment that starts and ends with a reserved character.
HasSegment(s, seg) ==
    \E i \in 1..Len(s) : i + Len(seg) - 1 <= Len(s) /\ SubSeq(s, i, i + Len(seg) - 1) = seg

\* s.startswith("http").
StartsWithHttp(s) == s # EmptyStr /\ s[1] \in {"http", "https"}

\* ---- src/utils.py ----

BLOCKLIST_TOKENS ==
    {"login", "password", "reset", "subscribe", "newsletter",
     "account", "cookie", "privacy", "terms", "contact"}

\* is_blocklisted_url(url).
is_blocklisted_url(url) == \E token \in BLOCKLIST_TOKENS : HasToken(Lower(url), token)

\* ---- src/parser.py ----

\* A variant of the page token list that misses its last token.
FORBIDDEN_PAGE_TOKENS_short == {"login", "password", "reset", "subscribe"}

FORBIDDEN_PAGE_TOKENS == {"login", "password", "reset", "subscribe", "newsletter"}

MUSICWEEK_ARTICLE_PATH_HINTS ==
    {<<"/", "labels", "/", "read", "/">>, <<"/", "live", "/", "read", "/">>,
     <<"/", "media", "/", "read", "/">>, <<"/", "talent", "/", "read", "/">>,
     <<"/", "news", "/">>, <<"/", "opinion", "/", "read", "/">>}

\* An absent value (Python's None) and a present one.
None == <<>>
Some(x) == <<x>>

\* The text of an HTTP response, as far as the program reads it: the hrefs of its
\* links, the og:title and <title> contents, the date candidates in document order
\* (each parses to a time or does not parse), the visible text and its length in
\* characters.  `empty` is the empty string.
EmptyText ==
    [empty |-> TRUE, links |-> {}, og_title |-> EmptyStr, title_tag |-> EmptyStr,
     dates |-> <<>>, words |-> EmptyStr, len |-> 0]

\* _safe_parse_dt over the candidates: the first one that parses, None when none does.
RECURSIVE FirstParsed(_)
FirstParsed(cands) ==
    IF cands = <<>> THEN None
    ELSE IF Head(cands).ok THEN Some(Head(cands).t)
    ELSE FirstParsed(Tail(cands))

\* extract_metadata(html).
extract_metadata(html) ==
    [title |-> IF html.og_title # EmptyStr THEN Strip(html.og_title)
               ELSE Strip(html.title_tag),
     published_dt |-> FirstParsed(html.dates),
     date_raw_found |-> html.dates # <<>>,
     page_text |-> Lower(html.words),
     body_len |-> html.len]

\* The forbidden-token test of is_article_page.
HasForbidden(md) ==
    \E token \in FORBIDDEN_PAGE_TOKENS :
        HasToken(Lower(md.title), token) \/ HasToken(md.page_text, token)

\* The Music Week branch of is_article_page.
HasPathHint(url) ==
    \E seg \in MUSICWEEK_ARTICLE_PATH_HINTS : HasSegment(Lower(urlparse(url).path), seg)

\* A variant of is_article_page that asks date signals of every source.
is_article_page_dated(md, source, url, http_status) ==
    IF http_status # 200 THEN <<FALSE, "http_status_not_200">>
    ELSE IF HasForbidden(md) THEN <<FALSE, "forbidden_page_tokens">>
    ELSE IF source = "Music Week" /\ ~HasPathHint(url)
         THEN <<FALSE, "musicweek_non_article_path">>
    ELSE IF md.published_dt = None /\ ~md.date_raw_found
         THEN <<FALSE, "missing_article_date_signals">>
    ELSE <<TRUE, "ok">>

\* is_article_page(metadata, source, url, http_status): (ok, reason).
is_article_page(md, source, url, http_status) ==
    IF http_status # 200 THEN <<FALSE, "http_status_not_200">>
    ELSE IF HasForbidden(md) THEN <<FALSE, "forbidden_page_tokens">>
    ELSE IF source = "Music Week"
         THEN IF HasPathHint(url) THEN <<TRUE, "ok">>
              ELSE <<FALSE, "musicweek_non_article_path">>
    ELSE IF md.published_dt = None /\ ~md.date_raw_found
         THEN <<FALSE, "missing_article_date_signals">>
    ELSE <<TRUE, "ok">>

(***************************************************************************)
(* State.  Three groups: the canonicalizer applied to a pair of raw URLs   *)
(* (prefix c_), the page classifier applied to one page (prefix k_), and   *)
(* the run of main (the rest).                                             *)
(***************************************************************************)
VARIABLES
    c_pc,       \* canonicalizer: "input", "canon" (applied once), "again" (applied twice)
    c_kind,     \* how the second raw URL differs from the first
    c_u, c_v,   \* the two raw URLs
    c_cu, c_cv, \* canonicalize_url of each
    c_ccu, c_ccv, \* canonicalize_url of c_cu and of c_cv
    k_pc,       \* classifier: "input", "extracted", "classified"
    k_html,     \* the text of the fetched page
    k_source, k_url, k_status, \* the other arguments of is_article_page
    k_md,       \* extract_metadata(k_html)
    k_res,      \* is_article_page(k_md, k_source, k_url, k_status)
    pc,         \* main: "home", "fallback", "rss", "mbw", "filter", "loop", "done"
    pos,        \* the index of the current loop (homepages, listing pages, items, candidates)
    cutoff,     \* cutoff = get_cutoff(args.days)
    discovered_home, discovered_fb, \* source -> set of URLs
    mbw_articles,    \* the list fetch_mbw_rss_articles returned
    parsed_articles, \* the accumulated list of articles
    mw_candidates,   \* the Music Week candidates, in processing order
    seen_urls,       \* the run's set of canonical URLs
    counters,        \* the integer counters of the run
    skipped_by_reason, \* counters["skipped_by_reason"]: reason -> count
    fetch_log,       \* the calls of fetcher.fetch so far: <<kind, url>>
    last,            \* the locals of the latest iteration of the candidate loop
    max_per_source,  \* args.max_per_source
    fb_res,          \* discover_fallback_urls: res of the latest listing page, None outside the call
    answered,        \* history: some call of fetcher.fetch of the run returned a result
    s_pc,            \* summary: "input", "built"
    s_title, s_excerpt, s_bullets, \* the arguments of build_summary_from_title_excerpt
    s_out,           \* its result
    f_now,           \* fetcher: the clock, in ticks
    f_cache,         \* the cache directory: canonical URL -> None or Some([text, mtime])
    f_origin,        \* history: canonical URL -> the status of the response its file was written from, 0 when none
    f_res            \* the result of the latest call of WebFetcher.fetch

c_vars == <<c_pc, c_kind, c_u, c_v, c_cu, c_cv, c_ccu, c_ccv>>

k_vars == <<k_pc, k_html, k_source, k_url, k_status, k_md, k_res>>

m_vars == <<pc, pos, cutoff, discovered_home, discovered_fb, mbw_articles, parsed_articles,
            mw_candidates, seen_urls, counters, skipped_by_reason, fetch_log, last,
            max_per_source, fb_res, answered>>
s_vars == <<s_pc, s_title, s_excerpt, s_bullets, s_out>>
f_vars == <<f_now, f_cache, f_origin, f_res>>

vars == <<c_vars, k_vars, m_vars, s_vars, f_vars>>

\* ---- the raw URLs the canonicalizer is applied to ----

\* The parts raw URLs are assembled from.
SchemeParts == {<<>>, <<"http", ":">>, <<"https", ":">>}
HostParts == {<<>>, <<"/", "/", "host.com">>, <<"/", "/", "example.com">>}
PathParts ==
    {<<>>, <<"/">>, <<"/", "x">>, <<"/", "a", "/", "b">>, <<"/", "a", " ">>,
     <<"/", "a", ";", "p">>, <<"/", "News", "/", "x", "/">>}
QueryParts ==
    {<<>>, <<"?", "id", "=", "1">>, <<"?", "page", "=", "2", "&", "id", "=", "1">>,
     <<"?", "fbclid", "=", "abc">>, <<"?", "a", "%20", "b", "=", "1", "/", "2">>}
FragmentParts == {<<>>, <<"#", "f">>}
Paddings == {"none", "lead", "trail"}

\* A raw URL as its parts.
Parts == [scheme : SchemeParts, host : HostParts, path : PathParts,
          query : QueryParts, fragment : FragmentParts, pad : Paddings]

\* The raw URL string of the parts.
Render(c) ==
    (IF c.pad = "lead" THEN <<" ">> ELSE <<>>)
    \o c.scheme \o c.host \o c.path \o c.query \o c.fragment
    \o (IF c.pad = "trail" THEN <<" ">> ELSE <<>>)

\* Upper-case spelling of a scheme or host word.
UpperSym(w) ==
    CASE w = "http" -> "HTTP"
      [] w = "example.com" -> "Example.com"
      [] OTHER -> w

\* Every "/" of the path doubled.
RECURSIVE DoubleSlashes(_)
DoubleSlashes(s) ==
    IF s = <<>> THEN <<>>
    ELSE (IF Head(s) = "/" THEN <<"/", "/">> ELSE <<Head(s)>>) \o DoubleSlashes(Tail(s))

\* The ways the second URL of a pair differs from the first.
Kinds == {"same", "track_front", "track_back", "fragment", "slash", "slashes", "case"}

\* The parts changed in one of the ways above.
Variant(kind, c) ==
    CASE kind = "track_front" ->
            [c EXCEPT !.query = IF c.query = <<>> THEN <<"?", "utm_source", "=", "x">>
                                ELSE <<"?", "utm_source", "=", "x", "&">> \o Tail(c.query)]
      [] kind = "track_back" ->
            [c EXCEPT !.query = IF c.query = <<>> THEN <<"?", "gclid", "=", "abc">>
                                ELSE c.query \o <<"&", "UTM_Medium", "=", "x">>]
      [] kind = "fragment" ->
            [c EXCEPT !.fragment = IF c.fragment = <<>> THEN <<"#", "f">> ELSE <<>>]
      [] kind = "slash" -> [c EXCEPT !.path = c.path \o <<"/">>]
      [] kind = "slashes" ->
            [c EXCEPT !.path = IF c.host = <<>> THEN c.path \o <<"/", "/">>
                               ELSE DoubleSlashes(c.path)]
      [] kind = "case" ->
            [c EXCEPT !.scheme = [i \in 1..Len(c.scheme) |-> UpperSym(c.scheme[i])],
                      !.host = [i \in 1..Len(c.host) |-> UpperSym(c.host[i])]]
      [] OTHER -> c

\* The raw URLs named by the scenarios of the specification.
UrlHttpTracked == <<"http", ":", "/", "/", "host.com", "/", "x", "?", "fbclid", "=", "abc">>
UrlHttpsSlash == <<"https", ":", "/", "/", "host.com", "/", "x", "/">>
UrlHttpSlash == <<"http", ":", "/", "/", "host.com", "/", "x", "/">>
UrlEquivA == <<"https", ":", "/", "/", "Example.com", "/", "a", "/", "/", "b", "/",
               "?", "utm_source", "=", "x", "&", "id", "=", "1">>
UrlEquivB == <<"https", ":", "/", "/", "example.com", "/", "a", "/", "b", "?", "id", "=", "1">>

\* Pairs of raw URLs given outright.
Scenarios ==
    {<<UrlHttpTracked, UrlHttpsSlash>>, <<UrlHttpTracked, UrlHttpSlash>>,
     <<UrlEquivA, UrlEquivB>>, <<EmptyStr, EmptyStr>>}

\* ---- the pages the classifier is applied to ----

\* A time of the run, in ticks; the lookback window ends here.
Now == 30

\* --days (default 7).
Days == 7

\* Ticks per day: the resolution of the model's clock.
TicksPerDay == 2

\* get_cutoff(days), for the given reading of the clock.
get_cutoff(now, days) == now - days * TicksPerDay

\* A date candidate of a page: a string that parses to time t, or one that does not.
Parses(t) == [ok |-> TRUE, t |-> t]
Unparsable == [ok |-> FALSE, t |-> 0]

\* The sources.
MusicWeek == "Music Week"
Mbw == "Music Business Worldwide"

\* The pages classified: every combination of titles, date candidates, visible
\* text and text length below, and the empty page.
ClassifiedPages ==
    [empty : {FALSE}, links : {{}},
     og_title : {EmptyStr, <<"Big", " ", "news">>, <<"Login">>},
     title_tag : {EmptyStr, <<"Privacy", " ", "terms">>},
     dates : {<<>>, <<Unparsable>>, <<Unparsable, Parses(Now)>>},
     words : {<<"music">>, <<"Subscribe", " ", "now">>, <<"contact", " ", "us">>,
              <<"newsletter">>},
     len : {500, 1500}]
    \cup {EmptyText}

\* The URLs classified: an article path and a listing path of Music Week.
UrlNewsArticle ==
    <<"https", ":", "/", "/", "www.musicweek.com", "/", "news", "/", "some-title-123">>
UrlCharts == <<"https", ":", "/", "/", "www.musicweek.com", "/", "charts">>
ClassifiedUrls == {UrlNewsArticle, UrlCharts}

\* The HTTP statuses classified.
ClassifiedStatuses == {200, 203, 404}

\* The metadata of a page nothing was extracted from yet.
NoMetadata == extract_metadata(EmptyText)

\* ---- ordering of strings (sorted) ----

\* The symbols of the vocabulary in the order Python compares them as strings.  No
\* word is a prefix of another one that continues with a digit or punctuation, so
\* comparing two strings symbol by symbol is comparing them character by character.
SymbolOrder ==
    <<" ", "#", "%20", "%23", "%26", "%2F", "%3A", "%3B", "%3D", "%3F", "&", "+", "/",
      "1", "2", ":", ";", "=", "?", "Example.com", "HTTP", "News", "UTM_Medium", "a",
      "abc", "b", "charts", "example.com", "f", "fbclid", "gclid", "host.com", "http",
      "https", "id", "labels", "live", "login", "media", "musicweek.com", "news",
      "newsletter", "notmusicweek.com.au", "opinion", "other.com", "p", "page", "read", "some-title-123",
      "talent", "utm_source", "www.musicbusinessworldwide.com", "www.musicweek.com", "x">>

\* The place of a symbol in that order.
SymRank(w) == CHOOSE i \in 1..Len(SymbolOrder) : SymbolOrder[i] = w

\* a < b for two strings.
RECURSIVE StrLess(_, _)
StrLess(a, b) ==
    IF a = <<>> THEN b # <<>>
    ELSE IF b = <<>> THEN FALSE
    ELSE IF Head(a) = Head(b) THEN StrLess(Tail(a), Tail(b))
    ELSE SymRank(Head(a)) < SymRank(Head(b))

\* sorted(S) for a set of strings.
RECURSIVE Sorted(_)
Sorted(S) ==
    IF S = {} THEN <<>>
    ELSE LET m == CHOOSE x \in S : \A y \in S \ {x} : StrLess(x, y)
         IN  <<m>> \o Sorted(S \ {m})

\* ---- src/fetchers.py ----

MUSICWEEK_PATTERNS ==
    {<<"/", "labels", "/", "read", "/">>, <<"/", "live", "/", "read", "/">>,
     <<"/", "media", "/", "read", "/">>, <<"/", "talent", "/", "read", "/">>,
     <<"/", "opinion", "/", "read", "/">>, <<"/", "news", "/">>}

\* What the network answers to one request: a status and a body.  None stands for
\* no answer at all (robots.txt disallows the URL, or the request raises).
Response(status, body) == [status_code |-> status, body |-> body]

\* WebFetcher.fetch(url, use_robots) for the given answer of the network: a
\* FetchResult or None.  The body of an answer with status >= 400 is dropped.
WebFetcher_fetch(url, answer) ==
    IF canonicalize_url(url) = EmptyStr \/ answer = None THEN None
    ELSE Some([url |-> canonicalize_url(url),
               status_code |-> answer[1].status_code,
               text |-> IF answer[1].status_code < 400 THEN answer[1].body
                        ELSE EmptyText,
               from_cache |-> FALSE])

\* The age below which a cached file is served, in hours.
CacheHours == 24

\* file_age_hours(cache_path) at the given time: None when there is no file.
file_age_hours(cache, canon, now) ==
    IF cache[canon] = None THEN None ELSE Some(now - cache[canon][1].mtime)

\* age is not None and age < 24.
IsFresh(age) == age # None /\ age[1] < CacheHours

\* WebFetcher.fetch(url, use_robots) with use_cache, for what robots.txt allows
\* and for the answer of the network (None: the request raises).
CachedFetch(cache, now, url, allowed, answer) ==
    IF canonicalize_url(url) = EmptyStr \/ ~allowed THEN None
    ELSE IF IsFresh(file_age_hours(cache, canonicalize_url(url), now))
    THEN Some([url |-> canonicalize_url(url), status_code |-> 200,
               text |-> cache[canonicalize_url(url)][1].text, from_cache |-> TRUE])
    ELSE WebFetcher_fetch(url, answer)

\* if self.use_cache and text: save_text(cache_path, text), given the result of
\* the call.
SaveText(cache, now, res) ==
    IF res = None \/ res[1].from_cache \/ res[1].text.empty THEN cache
    ELSE [cache EXCEPT ![res[1].url] = Some([text |-> res[1].text, mtime |-> now])]

\* urljoin(base, href) for an href with a scheme (returned as it is) and for a
\* root-relative one (the base's scheme and netloc before it).
urljoin(base, href) ==
    IF urlsplit(href).scheme # EmptyStr THEN href
    ELSE urlsplit(base).scheme \o <<":", "/", "/">> \o urlsplit(base).netloc \o href

\* The hrefs extract_links_from_html keeps: stripped, not empty, no "#...".
LinkHrefs(html) ==
    {Strip(h) : h \in {x \in html.links : Strip(x) # EmptyStr /\ Head(Strip(x)) # "#"}}

\* extract_links_from_html(base_url, html), as the set of the URLs in its list.
extract_links_from_html(base_url, html) ==
    {u \in {canonicalize_url(urljoin(base_url, h)) : h \in LinkHrefs(html)} :
        StartsWithHttp(u)}

\* The test discovery applies to the links of a source's pages.
OnSourceSite(source, url) ==
    IF source = MusicWeek THEN HasMusicWeek(url) ELSE HasMbw(url)

\* The test filter_candidate_urls applies to one URL.
IsCandidate(source, url) ==
    /\ ~is_blocklisted_url(url)
    /\ source = MusicWeek => HasMusicWeek(Lower(urlparse(url).netloc))
    /\ source = Mbw => HasMbw(Lower(urlparse(url).netloc))
    /\ source = MusicWeek =>
          \E seg \in MUSICWEEK_PATTERNS : HasSegment(Lower(urlparse(url).path), seg)

\* filter_candidate_urls(source, urls).
filter_candidate_urls(source, urls) == Sorted({u \in urls : IsCandidate(source, u)})

\* list[:n].
Take(list, n) == SubSeq(list, 1, IF n < Len(list) THEN n ELSE Len(list))

\* published_dt.date().isoformat(): the day of the time; "" is None.
DateOf(pub_dt) == IF pub_dt = None THEN None ELSE Some(pub_dt[1] \div TicksPerDay)

\* The entries of the feed that fetch_mbw_rss_articles keeps the article of.
KeepsEntry(entry, rss_cutoff) ==
    /\ canonicalize_url(Strip(entry.link)) # EmptyStr
    /\ ~is_blocklisted_url(canonicalize_url(Strip(entry.link)))
    /\ FirstParsed(entry.dates) = None \/ FirstParsed(entry.dates)[1] >= rss_cutoff

\* The article dict fetch_mbw_rss_articles builds of one entry.
EntryArticle(entry) ==
    [source |-> Mbw,
     date |-> DateOf(FirstParsed(entry.dates)),
     date_missing |-> FirstParsed(entry.dates) = None,
     title_en |-> Strip(entry.title),
     url |-> canonicalize_url(Strip(entry.link))]

\* fetch_mbw_rss_articles(days) for the given entries of the feed and its own cutoff.
RECURSIVE fetch_mbw_rss_articles(_, _)
fetch_mbw_rss_articles(entries, rss_cutoff) ==
    IF entries = <<>> THEN <<>>
    ELSE (IF KeepsEntry(Head(entries), rss_cutoff)
          THEN <<EntryArticle(Head(entries))>> ELSE <<>>)
         \o fetch_mbw_rss_articles(Tail(entries), rss_cutoff)

\* ---- src/parser.py: the summary ----

\* The characters [.!?] of the alphabet.
SentenceEnd == {".", "!"}

\* The index of the first white space that follows a sentence end, 0 when none.
CutAt(s) ==
    LET idx == {i \in 2..Len(s) : s[i] = " " /\ s[i - 1] \in SentenceEnd}
    IN  IF idx = {} THEN 0 ELSE MinOf(idx)

\* re.split(r"(?<=[.!?])\s+", s).
RECURSIVE ReSplit(_)
ReSplit(s) ==
    IF CutAt(s) = 0 THEN <<s>>
    ELSE <<Before(s, CutAt(s))>> \o ReSplit(LStrip(From(s, CutAt(s))))

\* [c.strip() for c in chunks if c.strip()].
RECURSIVE StripChunks(_)
StripChunks(chunks) ==
    IF chunks = <<>> THEN <<>>
    ELSE (IF Strip(Head(chunks)) = EmptyStr THEN <<>> ELSE <<Strip(Head(chunks))>>)
         \o StripChunks(Tail(chunks))

\* split_sentences(text).
split_sentences(text) ==
    IF text = EmptyStr THEN <<>> ELSE StripChunks(ReSplit(Strip(text)))

\* A variant of the key that tells upper case from lower case.
SentenceKeyExact(s) == s

\* key = s.lower().
SentenceKey(s) == Lower(s)

\* The loop that keeps the sentences whose key was not seen.
RECURSIVE Unique(_, _)
Unique(sentences, seen) ==
    IF sentences = <<>> THEN <<>>
    ELSE IF SentenceKey(Head(sentences)) \in seen THEN Unique(Tail(sentences), seen)
    ELSE <<Head(sentences)>>
         \o Unique(Tail(sentences), seen \cup {SentenceKey(Head(sentences))})

\* The least number of bullets of a summary.
LeastBullets == 2

\* "\n".join(lines).
RECURSIVE JoinLines(_)
JoinLines(lines) ==
    IF lines = <<>> THEN EmptyStr
    ELSE IF Len(lines) = 1 THEN Head(lines)
    ELSE Head(lines) \o <<"\n">> \o JoinLines(Tail(lines))

\* The sentences the summary is chosen from: the title, then those of the excerpt.
Sentences(title, excerpt) ==
    (IF title # EmptyStr THEN <<title>> ELSE <<>>) \o split_sentences(excerpt)

\* unique[: max(2, bullets)] if unique else ["No summary available."].
Chosen(unique, bullets) ==
    IF unique # <<>> THEN Take(unique, MaxOf({LeastBullets, bullets}))
    ELSE << <<"No summary available.">> >>

\* build_summary_from_title_excerpt(title, excerpt, bullets).
build_summary_from_title_excerpt(title, excerpt, bullets) ==
    JoinLines([i \in 1..Len(Chosen(Unique(Sentences(title, excerpt), {}), bullets)) |->
                 <<"-", " ">> \o Chosen(Unique(Sentences(title, excerpt), {}), bullets)[i]])

\* ---- main.py ----

\* A variant of the date-window test that also drops the page published at the cutoff.
IsOlderOrEqual(pub_dt, cut) == pub_dt # None /\ pub_dt[1] <= cut

\* pub_dt is not None and pub_dt < cutoff.
IsOlder(pub_dt, cut) == pub_dt # None /\ pub_dt[1] < cut

\* The ParsedArticle main builds of one article dict of the feed.
MbwArticle(item) ==
    [source |-> item.source, url |-> item.url, title |-> item.title_en,
     date |-> item.date, date_missing |-> item.date_missing]

\* The ParsedArticle main builds of a retained Music Week page.
MusicWeekArticle(cu, md) ==
    [source |-> MusicWeek, url |-> cu, title |-> Strip(md.title),
     date |-> DateOf(md.published_dt), date_missing |-> md.published_dt = None]

\* The reasons a candidate is skipped for.
Reasons ==
    {"duplicate_url", "fetch_failed_or_robots_block", "http_status_not_200",
     "forbidden_page_tokens", "musicweek_non_article_path",
     "missing_article_date_signals", "older_than_window"}

\* counter[key] += 1.
Inc(counter, key) == [counter EXCEPT ![key] = @ + 1]

\* ---- the inputs of a run ----

\* --max-per-source.
MaxPerSource == 2

\* Most entries in the feed.
MaxFeed == 2

\* The homepages of discover_homepage_urls, in the order of its dict.
UrlMwHome == <<"https", ":", "/", "/", "www.musicweek.com", "/">>
UrlMbwHome == <<"https", ":", "/", "/", "www.musicbusinessworldwide.com", "/">>
Homepages == <<[source |-> MusicWeek, url |-> UrlMwHome], [source |-> Mbw, url |-> UrlMbwHome]>>

\* The listing pages of discover_fallback_urls.
UrlMwNews == <<"https", ":", "/", "/", "www.musicweek.com", "/", "news">>
ListingUrls ==
    <<UrlMwNews, UrlMwNews \o <<"?", "page", "=", "2">>, UrlMwNews \o <<"?", "page", "=", "3">> >>

\* The hrefs a Music Week homepage may link to.
HrefNewsA == <<"https", ":", "/", "/", "www.musicweek.com", "/", "news", "/", "a">>
HrefNewsATracked == HrefNewsA \o <<"/", "?", "utm_source", "=", "x">>
HrefNewsAParams == HrefNewsA \o <<";", "p", "/">>
HrefHttpNewsA ==
    <<"http", ":", "/", "/", "www.musicweek.com", "/", "news", "/", "a", "?", "fbclid", "=", "abc">>
HrefTalentB == <<"/", "talent", "/", "read", "/", "b">>
HrefLogin == <<"https", ":", "/", "/", "www.musicweek.com", "/", "login">>
HrefCharts == <<"https", ":", "/", "/", "www.musicweek.com", "/", "charts">>
HrefOther == <<"https", ":", "/", "/", "other.com", "/", "news", "/", "b">>
HrefFragment == <<"#", "f">>
HrefLookalike == <<"https", ":", "/", "/", "notmusicweek.com.au", "/", "news", "/", "c">>
HrefMbwA == <<"https", ":", "/", "/", "www.musicbusinessworldwide.com", "/", "a">>

\* A page that only links.
LinkPage(hrefs) == [EmptyText EXCEPT !.empty = FALSE, !.links = hrefs]

\* The homepages the network may serve: one whose two links differ only in what
\* canonicalization removes, and one with a link of each other kind.
HomePagesOf(source) ==
    IF source = MusicWeek
    THEN {LinkPage({HrefNewsATracked, HrefNewsAParams}),
          LinkPage({HrefHttpNewsA, HrefTalentB, HrefLogin, HrefOther, HrefFragment,
                    HrefLookalike})}
    ELSE {LinkPage({HrefMbwA})}

\* What the network may answer for a homepage and for a listing page.
HomeAnswers(source) ==
    {None, Some(Response(200, EmptyText)), Some(Response(500, LinkPage({HrefNewsA})))}
    \cup {Some(Response(200, page)) : page \in HomePagesOf(source)}
ListingAnswers ==
    {None, Some(Response(200, LinkPage({HrefNewsA, HrefCharts}))),
     Some(Response(404, LinkPage({HrefNewsA}))), Some(Response(500, EmptyText))}

\* An article page with the given title and date candidates.
ArticlePage(title, dates) ==
    [EmptyText EXCEPT !.empty = FALSE, !.og_title = title, !.dates = dates,
                      !.words = <<"music">>, !.len = 1500]

\* What the network may answer for a candidate: pages published one tick before
\* the cutoff, at it and one tick after it, a page without a date, a page that
\* asks to log in, an empty body, and an answer that is not 200.
CandidateAnswers ==
    {None}
    \cup {Some(Response(200, ArticlePage(<<"Big", " ", "news">>, <<Parses(t)>>))) :
            t \in (get_cutoff(Now, Days) - 1)..(get_cutoff(Now, Days) + 1)}
    \cup {Some(Response(200, ArticlePage(<<"Big", " ", "news">>, <<>>))),
          Some(Response(200, ArticlePage(<<"Login">>, <<>>))),
          Some(Response(200, EmptyText)),
          Some(Response(203, ArticlePage(<<"Big", " ", "news">>, <<>>)))}

\* The entries the feed may hold: two whose links differ only in what
\* canonicalization removes (one published at the cutoff, one with a date that
\* does not parse), one published before the cutoff, one with a blocklisted link
\* and one without a link.
EntryLinkA == HrefMbwA \o <<"/", "?", "utm_source", "=", "x">>
FeedEntries ==
    {[title |-> <<"Big", " ", "news">>, link |-> EntryLinkA,
      dates |-> <<Parses(get_cutoff(Now, Days))>>],
     [title |-> <<"Big", " ", "news">>, link |-> HrefMbwA, dates |-> <<Unparsable>>],
     [title |-> <<"Big">>, link |-> HrefMbwA \o <<"/", "b">>,
      dates |-> <<Parses(get_cutoff(Now, Days) - 1)>>],
     [title |-> <<"Big">>, link |-> HrefMbwA \o <<"/", "newsletter">>, dates |-> <<>>],
     [title |-> <<"Big">>, link |-> <<" ">>, dates |-> <<>>]}

\* The feeds: the lists of at most MaxFeed entries.
Feeds == UNION {[1..n -> FeedEntries] : n \in 0..MaxFeed}

\* The canonicalizer's variables when it is not the subject.
CanonIdle ==
    /\ c_pc = "idle" /\ c_kind = "same"
    /\ c_u = EmptyStr /\ c_v = EmptyStr /\ c_cu = EmptyStr /\ c_cv = EmptyStr
    /\ c_ccu = EmptyStr /\ c_ccv = EmptyStr

\* The classifier's variables when it is not the subject.
ClassifyIdle ==
    /\ k_pc = "idle" /\ k_html = EmptyText /\ k_source = MusicWeek
    /\ k_url = EmptyStr /\ k_status = 0 /\ k_md = NoMetadata /\ k_res = <<FALSE, "">>

\* The counters main starts with.
ZeroCounters ==
    [discovered_urls_homepage |-> 0, discovered_urls_fallback |-> 0, fetched_pages |-> 0,
     kept_articles |-> 0, fetched_musicweek_pages |-> 0, retained_musicweek_articles |-> 0,
     mbw_rss_entries |-> 0, date_missing_count |-> 0]

\* The locals of the candidate loop before its first iteration.
NoIteration ==
    [url |-> EmptyStr, cu |-> EmptyStr, res |-> None, md |-> NoMetadata,
     ok |-> FALSE, reason |-> "", outcome |-> "none"]

\* main's variables at the given position of the program, nothing done yet.
MainAt(at) ==
    /\ pc = at /\ pos = 1
    /\ cutoff = get_cutoff(Now, Days)
    /\ discovered_home = [s \in {MusicWeek, Mbw} |-> {}]
    /\ discovered_fb = [s \in {MusicWeek, Mbw} |-> {}]
    /\ mbw_articles = <<>> /\ parsed_articles = <<>> /\ mw_candidates = <<>>
    /\ seen_urls = {}
    /\ counters = ZeroCounters
    /\ skipped_by_reason = [r \in Reasons |-> 0]
    /\ fetch_log = <<>>
    /\ last = NoIteration
    /\ fb_res = None
    /\ answered = FALSE

\* main's variables when it is not the subject.
MainIdle == MainAt("idle") /\ max_per_source = MaxPerSource

\* The summarizer's variables when it is not the subject.
SummaryIdle ==
    /\ s_pc = "idle" /\ s_title = EmptyStr /\ s_excerpt = EmptyStr
    /\ s_bullets = 0 /\ s_out = EmptyStr

\* The fetcher's variables when it is not the subject.
FetchIdle ==
    /\ f_now = 0 /\ f_cache = <<>> /\ f_origin = <<>> /\ f_res = None

\* A pair of raw URLs is drawn: a URL and a variant of it, or a scenario.
CanonInit ==
    /\ c_pc = "input"
    /\ \/ \E c \in Parts, kind \in Kinds :
            /\ c_kind = kind
            /\ c_u = Render(c)
            /\ c_v = Render(Variant(kind, c))
       \/ \E sc \in Scenarios :
            /\ c_kind = "scenario"
            /\ c_u = sc[1]
            /\ c_v = sc[2]
    /\ c_cu = EmptyStr /\ c_cv = EmptyStr /\ c_ccu = EmptyStr /\ c_ccv = EmptyStr
    /\ ClassifyIdle
    /\ MainIdle
    /\ SummaryIdle
    /\ FetchIdle

\* canonicalize_url is applied to each raw URL.
Canonicalize ==
    /\ c_pc = "input"
    /\ c_cu' = canonicalize_url(c_u)
    /\ c_cv' = canonicalize_url(c_v)
    /\ c_pc' = "canon"
    /\ UNCHANGED <<c_kind, c_u, c_v, c_ccu, c_ccv>>
    /\ UNCHANGED <<k_vars, m_vars, s_vars, f_vars>>

\* canonicalize_url is applied to its own results.
CanonicalizeAgain ==
    /\ c_pc = "canon"
    /\ c_ccu' = canonicalize_url(c_cu)
    /\ c_ccv' = canonicalize_url(c_cv)
    /\ c_pc' = "again"
    /\ UNCHANGED <<c_kind, c_u, c_v, c_cu, c_cv>>
    /\ UNCHANGED <<k_vars, m_vars, s_vars, f_vars>>

CanonNext == Canonicalize \/ CanonicalizeAgain

SpecCanon == CanonInit /\ [][CanonNext]_vars

\* A fetched page, its source, its URL and its status are drawn.
ClassifyInit ==
    /\ k_pc = "input"
    /\ k_html \in ClassifiedPages
    /\ k_source \in {MusicWeek, Mbw}
    /\ k_url \in ClassifiedUrls
    /\ k_status \in ClassifiedStatuses
    /\ k_md = NoMetadata
    /\ k_res = <<FALSE, "">>
    /\ CanonIdle
    /\ MainIdle
    /\ SummaryIdle
    /\ FetchIdle

\* md = extract_metadata(res.text).
ExtractMetadata ==
    /\ k_pc = "input"
    /\ k_md' = extract_metadata(k_html)
    /\ k_pc' = "extracted"
    /\ UNCHANGED <<k_html, k_source, k_url, k_status, k_res>>
    /\ UNCHANGED <<c_vars, m_vars, s_vars, f_vars>>

\* ok, reason = is_article_page(md, source, url, http_status).
Classify ==
    /\ k_pc = "extracted"
    /\ k_res' = is_article_page(k_md, k_source, k_url, k_status)
    /\ k_pc' = "classified"
    /\ UNCHANGED <<k_html, k_source, k_url, k_status, k_md>>
    /\ UNCHANGED <<c_vars, m_vars, s_vars, f_vars>>

ClassifyNext == ExtractMetadata \/ Classify

SpecClassify == ClassifyInit /\ [][ClassifyNext]_vars

(***************************************************************************)
(* build_summary_from_title_excerpt on titles, excerpts and bullet counts. *)
(***************************************************************************)

\* The longest excerpt and the largest bullet count drawn.
MaxExcerptLen == 5
MaxBullets == 3

\* The characters of an excerpt, the excerpts and the titles.  Here a symbol is
\* one character, so that sentences are split and compared character by character.
ExcerptChars == {"A", "a", ".", "!", " "}
Excerpts == UNION {[1..n -> ExcerptChars] : n \in 0..MaxExcerptLen}
Titles == {EmptyStr, <<"A", ".">>, <<"a">>}

SummaryInit ==
    /\ s_pc = "input"
    /\ s_title \in Titles
    /\ s_excerpt \in Excerpts
    /\ s_bullets \in 0..MaxBullets
    /\ s_out = EmptyStr
    /\ CanonIdle /\ ClassifyIdle /\ MainIdle /\ FetchIdle

\* summary = build_summary_from_title_excerpt(title, excerpt, bullets).
Summarize ==
    /\ s_pc = "input"
    /\ s_out' = build_summary_from_title_excerpt(s_title, s_excerpt, s_bullets)
    /\ s_pc' = "built"
    /\ UNCHANGED <<s_title, s_excerpt, s_bullets>>
    /\ UNCHANGED <<c_vars, k_vars, m_vars, f_vars>>

SummaryNext == Summarize

SpecSummary == SummaryInit /\ [][SummaryNext]_vars

(***************************************************************************)
(* WebFetcher.fetch with its cache, over a sequence of calls.              *)
(***************************************************************************)

\* The hours between two readings of the clock, and the last reading.
TickHours == 12
MaxClock == 48

\* The URLs fetched (two of them with one canonical form), the files of the
\* cache, and what the network may answer.
FetchUrls == {HrefNewsA, HrefNewsATracked, HrefCharts}
CacheKeys == {canonicalize_url(u) : u \in FetchUrls}
FetchAnswers ==
    {None, Some(Response(200, LinkPage({HrefNewsA}))), Some(Response(200, EmptyText)),
     Some(Response(203, LinkPage({HrefCharts}))), Some(Response(404, LinkPage({HrefNewsA})))}

FetchInit ==
    /\ f_now = 0
    /\ f_cache = [canon \in CacheKeys |-> None]
    /\ f_origin = [canon \in CacheKeys |-> 0]
    /\ f_res = None
    /\ CanonIdle /\ ClassifyIdle /\ MainIdle /\ SummaryIdle

\* One call of fetcher.fetch(url).
Fetch ==
    /\ \E url \in FetchUrls, allowed \in BOOLEAN, answer \in FetchAnswers :
       \E res \in {CachedFetch(f_cache, f_now, url, allowed, answer)} :
         /\ f_res' = res
         /\ f_cache' = SaveText(f_cache, f_now, res)
         /\ f_origin' = IF f_cache' = f_cache THEN f_origin
                        ELSE [f_origin EXCEPT ![res[1].url] = answer[1].status_code]
    /\ UNCHANGED f_now
    /\ UNCHANGED <<c_vars, k_vars, m_vars, s_vars>>

\* Time passes between two calls.
Tick ==
    /\ f_now + TickHours <= MaxClock
    /\ f_now' = f_now + TickHours
    /\ UNCHANGED <<f_cache, f_origin, f_res>>
    /\ UNCHANGED <<c_vars, k_vars, m_vars, s_vars>>

FetchNext == Fetch \/ Tick

SpecFetch == FetchInit /\ [][FetchNext]_vars

(***************************************************************************)
(* The run of main.                                                        *)
(***************************************************************************)

\* The state after main's first lines: the arguments are parsed, the cutoff is
\* taken, the counters are zero.
Init ==
    /\ MainAt("home")
    /\ max_per_source \in 0..MaxPerSource
    /\ CanonIdle /\ ClassifyIdle /\ SummaryIdle /\ FetchIdle

\* The position of the program after the current loop's iteration.
Advance(count, next) ==
    IF pos < count THEN pc' = pc /\ pos' = pos + 1
    ELSE pc' = next /\ pos' = 1

\* The links discover_homepage_urls adds for one homepage and its fetch result.
HomeFound(home, res) ==
    IF res = None \/ res[1].text.empty THEN {}
    ELSE {u \in extract_links_from_html(home.url, res[1].text) : OnSourceSite(home.source, u)}

\* discover_homepage_urls, one homepage: fetch it and keep the links on the site.
DiscoverHome ==
    /\ pc = "home"
    /\ \E answer \in HomeAnswers(Homepages[pos].source) :
       \E res \in {WebFetcher_fetch(Homepages[pos].url, answer)} :
         /\ discovered_home' =
               [discovered_home EXCEPT ![Homepages[pos].source] =
                   @ \cup HomeFound(Homepages[pos], res)]
         /\ answered' = (answered \/ res # None)
    /\ fetch_log' = Append(fetch_log, <<"home", canonicalize_url(Homepages[pos].url)>>)
    /\ Advance(Len(Homepages), "fallback")
    /\ UNCHANGED <<cutoff, discovered_fb, mbw_articles, parsed_articles, mw_candidates,
                   seen_urls, counters, skipped_by_reason, last, fb_res>>
    /\ UNCHANGED <<c_vars, k_vars, s_vars, f_vars, max_per_source>>

\* The links discover_fallback_urls adds for one listing page and its fetch result.
ListingFound(list_url, res) ==
    IF res = None THEN {}
    ELSE IF res[1].status_code = 404 /\ list_url # ListingUrls[1] THEN {}
    ELSE IF res[1].status_code >= 400 \/ res[1].text.empty THEN {}
    ELSE {u \in extract_links_from_html(list_url, res[1].text) : HasMusicWeek(u)}

\* discover_fallback_urls, one listing page.
DiscoverFallback ==
    /\ pc = "fallback"
    /\ \E answer \in ListingAnswers :
       \E res \in {WebFetcher_fetch(ListingUrls[pos], answer)} :
         /\ discovered_fb' =
               [discovered_fb EXCEPT ![MusicWeek] = @ \cup ListingFound(ListingUrls[pos], res)]
         /\ fb_res' = IF pos < Len(ListingUrls) THEN res ELSE None
         /\ answered' = (answered \/ res # None)
    /\ fetch_log' = Append(fetch_log, <<"listing", canonicalize_url(ListingUrls[pos])>>)
    /\ Advance(Len(ListingUrls), "rss")
    /\ UNCHANGED <<cutoff, discovered_home, mbw_articles, parsed_articles, mw_candidates,
                   seen_urls, counters, skipped_by_reason, last>>
    /\ UNCHANGED <<c_vars, k_vars, s_vars, f_vars, max_per_source>>

\* sum(len(v) for v in found.values()).
TotalFound(found) == Cardinality(found[MusicWeek]) + Cardinality(found[Mbw])

\* mbw_articles = fetch_mbw_rss_articles(args.days), and the three counters set
\* from it and from the discovered sets.  The function reads the clock itself;
\* its reading falls in the tick of main's reading.
FetchRss ==
    /\ pc = "rss"
    /\ \E feed \in Feeds :
         mbw_articles' = fetch_mbw_rss_articles(feed, get_cutoff(Now, Days))
    /\ counters' = [counters EXCEPT
                      !.mbw_rss_entries = Len(mbw_articles'),
                      !.discovered_urls_homepage = TotalFound(discovered_home),
                      !.discovered_urls_fallback = TotalFound(discovered_fb) + Len(mbw_articles')]
    /\ pc' = IF mbw_articles' = <<>> THEN "filter" ELSE "mbw"
    /\ UNCHANGED <<pos, cutoff, discovered_home, discovered_fb, parsed_articles,
                   mw_candidates, seen_urls, skipped_by_reason, fetch_log, last, fb_res,
                   answered>>
    /\ UNCHANGED <<c_vars, k_vars, s_vars, f_vars, max_per_source>>

\* One iteration of the loop over mbw_articles: the article is appended unfetched.
AppendMbw ==
    /\ pc = "mbw"
    /\ parsed_articles' = Append(parsed_articles, MbwArticle(mbw_articles[pos]))
    /\ counters' = IF mbw_articles[pos].date_missing
                   THEN [counters EXCEPT !.date_missing_count = @ + 1]
                   ELSE counters
    /\ Advance(Len(mbw_articles), "filter")
    /\ UNCHANGED <<cutoff, discovered_home, discovered_fb, mbw_articles, mw_candidates,
                   seen_urls, skipped_by_reason, fetch_log, last, fb_res, answered>>
    /\ UNCHANGED <<c_vars, k_vars, s_vars, f_vars, max_per_source>>

\* mw_candidates = filter_candidate_urls(...)[: args.max_per_source]; seen_urls = set().
FilterCandidates ==
    /\ pc = "filter"
    /\ mw_candidates' =
          Take(filter_candidate_urls(MusicWeek,
                  discovered_home[MusicWeek] \cup discovered_fb[MusicWeek]), max_per_source)
    /\ seen_urls' = {}
    /\ pc' = "loop"
    /\ pos' = 1
    /\ UNCHANGED <<cutoff, discovered_home, discovered_fb, mbw_articles, parsed_articles,
                   counters, skipped_by_reason, fetch_log, last, fb_res, answered>>
    /\ UNCHANGED <<c_vars, k_vars, s_vars, f_vars, max_per_source>>

\* The candidate of the current iteration.
CurUrl == mw_candidates[pos]

\* The locals of an iteration that ends with the given outcome.
Locals(cu, res, md, ok, reason, outcome) ==
    [url |-> CurUrl, cu |-> cu, res |-> res, md |-> md,
     ok |-> ok, reason |-> reason, outcome |-> outcome]

\* The iteration has a candidate.
InLoop == pc = "loop" /\ pos <= Len(mw_candidates)

\* cu in seen_urls: the candidate is counted as a duplicate and not fetched.
SkipDuplicate ==
    /\ InLoop
    /\ \E cu \in {canonicalize_url(CurUrl)} :
         /\ cu \in seen_urls
         /\ last' = Locals(cu, None, NoMetadata, FALSE, "", "duplicate_url")
    /\ skipped_by_reason' = Inc(skipped_by_reason, "duplicate_url")
    /\ pos' = pos + 1
    /\ UNCHANGED <<pc, cutoff, discovered_home, discovered_fb, mbw_articles, parsed_articles,
                   mw_candidates, seen_urls, counters, fetch_log, fb_res, answered>>
    /\ UNCHANGED <<c_vars, k_vars, s_vars, f_vars, max_per_source>>

\* What every iteration that reaches fetcher.fetch does: the URL is seen and the
\* fetch is logged.
Fetching(cu, res) ==
    /\ cu \notin seen_urls
    /\ answered' = (answered \/ res # None)
    /\ seen_urls' = seen_urls \cup {cu}
    /\ fetch_log' = Append(fetch_log, <<"candidate", cu>>)
    /\ pos' = pos + 1
    /\ UNCHANGED <<pc, cutoff, discovered_home, discovered_fb, mbw_articles, mw_candidates,
                   fb_res>>
    /\ UNCHANGED <<c_vars, k_vars, s_vars, f_vars, max_per_source>>

\* A variant of the failed fetch that ends the run: nothing is counted and the
\* loop is left, as if the failure were raised.
FetchFailedAborts ==
    /\ InLoop
    /\ \E cu \in {canonicalize_url(CurUrl)} :
         /\ cu \notin seen_urls
         /\ \E answer \in CandidateAnswers : WebFetcher_fetch(cu, answer) = None
         /\ seen_urls' = seen_urls \cup {cu}
         /\ fetch_log' = Append(fetch_log, <<"candidate", cu>>)
         /\ last' = Locals(cu, None, NoMetadata, FALSE, "", "fetch_failed_or_robots_block")
    /\ pc' = "aborted"
    /\ UNCHANGED <<pos, cutoff, discovered_home, discovered_fb, mbw_articles, parsed_articles,
                   mw_candidates, counters, skipped_by_reason, fb_res, answered>>
    /\ UNCHANGED <<c_vars, k_vars, s_vars, f_vars, max_per_source>>

\* fetcher.fetch(cu) returns None.
FetchFailed ==
    /\ InLoop
    /\ \E cu \in {canonicalize_url(CurUrl)} :
         /\ Fetching(cu, None)
         /\ \E answer \in CandidateAnswers : WebFetcher_fetch(cu, answer) = None
         /\ last' = Locals(cu, None, NoMetadata, FALSE, "", "fetch_failed_or_robots_block")
    /\ skipped_by_reason' = Inc(skipped_by_reason, "fetch_failed_or_robots_block")
    /\ UNCHANGED <<parsed_articles, counters>>

\* counters after a fetch that returned a page, and after a page was retained.
CountFetched(c) ==
    [c EXCEPT !.fetched_pages = @ + 1, !.fetched_musicweek_pages = @ + 1]

\* A variant that forgets to count the retained article.
CountRetainedForgets(c, date_missing) ==
    [c EXCEPT !.date_missing_count = IF date_missing THEN @ + 1 ELSE @]

\* counters after the page was retained.
CountRetained(c, date_missing) ==
    [c EXCEPT !.retained_musicweek_articles = @ + 1,
              !.date_missing_count = IF date_missing THEN @ + 1 ELSE @]

\* The rest of an iteration whose fetch returned res, with md the metadata of
\* the page and verdict what is_article_page says of it.
RejectPageOf(cu, res, md, verdict) ==
    /\ ~verdict[1]
    /\ counters' = CountFetched(counters)
    /\ skipped_by_reason' = Inc(skipped_by_reason, verdict[2])
    /\ last' = Locals(cu, res, md, FALSE, verdict[2], "rejected")
    /\ UNCHANGED parsed_articles
SkipOlderOf(cu, res, md, verdict) ==
    /\ verdict[1]
    /\ IsOlder(md.published_dt, cutoff)
    /\ counters' = CountFetched(counters)
    /\ skipped_by_reason' = Inc(skipped_by_reason, "older_than_window")
    /\ last' = Locals(cu, res, md, TRUE, verdict[2], "older_than_window")
    /\ UNCHANGED parsed_articles
RetainOf(cu, res, md, verdict) ==
    /\ verdict[1]
    /\ ~IsOlder(md.published_dt, cutoff)
    /\ counters' = CountRetained(CountFetched(counters), md.published_dt = None)
    /\ parsed_articles' = Append(parsed_articles, MusicWeekArticle(cu, md))
    /\ last' = Locals(cu, res, md, TRUE, verdict[2], "retained")
    /\ UNCHANGED skipped_by_reason

\* is_article_page says no: the reason it gives is counted.
RejectPage ==
    /\ InLoop
    /\ \E cu \in {canonicalize_url(CurUrl)} :
         \E answer \in CandidateAnswers :
         \E res \in {WebFetcher_fetch(cu, answer)} \ {None} :
         \E md \in {extract_metadata(res[1].text)} :
            /\ Fetching(cu, res)
            /\ RejectPageOf(cu, res, md,
                            is_article_page(md, MusicWeek, cu, res[1].status_code))

\* The page is an article published before the cutoff.
SkipOlder ==
    /\ InLoop
    /\ \E cu \in {canonicalize_url(CurUrl)} :
         \E answer \in CandidateAnswers :
         \E res \in {WebFetcher_fetch(cu, answer)} \ {None} :
         \E md \in {extract_metadata(res[1].text)} :
            /\ Fetching(cu, res)
            /\ SkipOlderOf(cu, res, md,
                           is_article_page(md, MusicWeek, cu, res[1].status_code))

\* The page is an article in the window, or one without a date: it is retained.
Retain ==
    /\ InLoop
    /\ \E cu \in {canonicalize_url(CurUrl)} :
         \E answer \in CandidateAnswers :
         \E res \in {WebFetcher_fetch(cu, answer)} \ {None} :
         \E md \in {extract_metadata(res[1].text)} :
            /\ Fetching(cu, res)
            /\ RetainOf(cu, res, md,
                        is_article_page(md, MusicWeek, cu, res[1].status_code))

\* counters["kept_articles"] = len(parsed_articles), after the loop.
Finish ==
    /\ pc = "loop"
    /\ pos > Len(mw_candidates)
    /\ counters' = [counters EXCEPT !.kept_articles = Len(parsed_articles)]
    /\ pc' = "done"
    /\ UNCHANGED <<pos, cutoff, discovered_home, discovered_fb, mbw_articles, parsed_articles,
                   mw_candidates, seen_urls, skipped_by_reason, fetch_log, last, fb_res,
                   answered>>
    /\ UNCHANGED <<c_vars, k_vars, s_vars, f_vars, max_per_source>>

Next ==
    \/ DiscoverHome \/ DiscoverFallback \/ FetchRss \/ AppendMbw \/ FilterCandidates
    \/ SkipDuplicate \/ FetchFailed \/ RejectPage \/ SkipOlder \/ Retain \/ Finish

Spec == Init /\ [][Next]_vars

\* The positions of main before its end, and the step from one of them: the
\* program moves to another position or to the next element of its loop.
Running == {"home", "fallback", "rss", "mbw", "filter", "loop"}
Moves ==
    /\ pc \in Running
    /\ pc' \in Running \cup {"done"}
    /\ pos' \in {1, pos, pos + 1}

\* main is one sequential program, and every statement of it ends (a fetch ends
\* with a response, an exception or its timeout): while main has not reached
\* its end, it moves on.
FairSpec == Spec /\ WF_<<pc, pos>>(Moves)

(***************************************************************************)
(* Properties.                                                             *)
(***************************************************************************)

\* The canonical URLs of the candidate fetches so far, in order.
CandidateFetches == SelectSeq(fetch_log, LAMBDA call : call[1] = "candidate")

\* No two elements of the sequence, read through f, are equal.
Distinct(seq, f(_)) == \A i, j \in 1..Len(seq) : i # j => f(seq[i]) # f(seq[j])

\* The canonical URL of an article and of a logged fetch.
ArticleKey(article) == canonicalize_url(article.url)
FetchKey(call) == canonicalize_url(call[2])

\* C1: of the discovered URLs with the same canonical form, one is fetched as a
\* candidate and the later ones are counted under duplicate_url without a fetch;
\* at the end of the run no two retained articles have the same canonical URL.
C1_OneFetchOneArticlePerCanonicalUrl ==
    /\ Distinct(CandidateFetches, FetchKey)
    /\ last.outcome = "duplicate_url" =>
          /\ \E i \in 1..Len(CandidateFetches) : FetchKey(CandidateFetches[i]) = last.cu
          /\ skipped_by_reason["duplicate_url"] >= 1
    /\ pc = "done" => Distinct(parsed_articles, ArticleKey)

\* C2: once the seen-set exists, the URL of every article of the list, of either
\* source, is in it, and no two articles have the same URL.
C2_EveryArticleUrlSeenOnce ==
    pc \in {"loop", "done"} =>
       /\ \A i \in 1..Len(parsed_articles) : parsed_articles[i].url \in seen_urls
       /\ Distinct(parsed_articles, ArticleKey)

\* C3 as stated: http://host.com/x?fbclid=abc and https://host.com/x/ have the
\* same canonical form.
C3_SchemesCanonicalizeAlike ==
    (c_pc = "canon" /\ c_u = UrlHttpTracked /\ c_v = UrlHttpsSlash) => c_cu = c_cv

\* C3, amended: http://host.com/x?fbclid=abc and http://host.com/x/ have the same
\* canonical form, http://host.com/x; that of https://host.com/x/ is
\* https://host.com/x, which differs from it in the scheme.
C3_SameSchemeCanonicalizesAlike ==
    (c_pc = "canon" /\ c_u = UrlHttpTracked) =>
       /\ c_cu = <<"http", ":", "/", "/", "host.com", "/", "x">>
       /\ c_v = UrlHttpSlash => c_cv = c_cu
       /\ c_v = UrlHttpsSlash => c_cv = <<"https", ":", "/", "/", "host.com", "/", "x">>

\* The two http URLs of C3 were canonicalized, to the same value.
C3_Witness ==
    c_pc = "canon" /\ c_u = UrlHttpTracked /\ c_v = UrlHttpSlash /\ c_cu = c_cv

\* C4: canonicalize_url applied to its own result returns that result.
C4_Idempotent ==
    c_pc = "again" => (c_ccu = c_cu /\ c_ccv = c_cv)

\* The raw URL has a scheme and a host and no white space.
IsAbsolute(c) ==
    /\ c.scheme # <<>> /\ c.host # <<>>
    /\ \A i \in 1..Len(Render(c)) : Render(c)[i] # " "

\* The query of the URL that is the base of the pair.
BaseQuery == urlsplit(Strip(c_u)).query

\* C5: two URLs that differ only in tracking parameters, in the fragment, in a
\* trailing slash or repeated slashes of the path, or in the case of scheme or
\* host have the same canonical form, and the parameters that are not tracking
\* ones stay in their order.
C5_EquivalentUrlsCanonicalizeAlike ==
    c_pc = "canon" =>
       /\ (c_kind \in Kinds /\ \E c \in Parts : IsAbsolute(c) /\ c_u = Render(c))
             => c_cu = c_cv
       /\ (c_u = UrlEquivA /\ c_v = UrlEquivB) => c_cu = c_cv
       /\ BaseQuery = <<"page", "=", "2", "&", "id", "=", "1">>
             => urlsplit(c_cu).query = BaseQuery

\* C6: is_article_page accepts a Music Week page with status 200 and no forbidden
\* token only if its path has an article hint and its body is longer than 1000
\* characters.
C6_MusicWeekNeedsPathAndBody ==
    (k_pc = "classified" /\ k_source = MusicWeek /\ k_res[1]) =>
       (HasPathHint(k_url) /\ k_md.body_len > 1000)

\* A token of the set is in the title or in the visible text of the page.
Mentions(md, tokens) ==
    \E token \in tokens : HasToken(Lower(md.title), token) \/ HasToken(md.page_text, token)

\* C7 as stated: a status-200 page whose title or text holds one of the ten
\* tokens URLs are tested for is rejected for its forbidden token.
C7_PageTokensAreUrlTokens ==
    (k_pc = "classified" /\ k_status = 200 /\ Mentions(k_md, BLOCKLIST_TOKENS)) =>
       k_res = <<FALSE, "forbidden_page_tokens">>

\* C7, amended: a status-200 page is rejected for its forbidden token exactly when
\* its title or text holds login, password, reset, subscribe or newsletter.
C7_PageTokensAreFive ==
    (k_pc = "classified" /\ k_status = 200) =>
       (k_res = <<FALSE, "forbidden_page_tokens">>
          <=> Mentions(k_md, {"login", "password", "reset", "subscribe", "newsletter"}))

\* A status-200 page with newsletter in its text was rejected for it.
C7_Witness ==
    /\ k_pc = "classified" /\ k_status = 200
    /\ HasToken(k_md.page_text, "newsletter")
    /\ k_res = <<FALSE, "forbidden_page_tokens">>

\* C8: a candidate is retained only if its fetch returned a result with status
\* 200 and a body that is not empty; a fetch that returned nothing or a status
\* other than 200 ends in a skip, the latter under http_status_not_200.
C8_RetainedOnlyWithBody ==
    /\ last.outcome = "retained" =>
          (last.res # None /\ last.res[1].status_code = 200 /\ ~last.res[1].text.empty)
    /\ (last.outcome # "none" /\ last.outcome # "duplicate_url" /\ last.res = None) =>
          last.outcome = "fetch_failed_or_robots_block"
    /\ (last.res # None /\ last.res[1].status_code # 200) =>
          (last.outcome = "rejected" /\ last.reason = "http_status_not_200")

\* An iteration of the candidate loop.
Iteration == pc = "loop" /\ pos' = pos + 1

\* The iteration appends one article and counts no skip.
Retains ==
    /\ Len(parsed_articles') = Len(parsed_articles) + 1
    /\ SubSeq(parsed_articles', 1, Len(parsed_articles)) = parsed_articles
    /\ parsed_articles'[Len(parsed_articles')].url = last'.cu
    /\ skipped_by_reason' = skipped_by_reason

\* C9: the cutoff is now - days and never changes; a page that passed
\* classification with a publish time at or after the cutoff is retained, one
\* published before the cutoff is not and older_than_window goes up by one.
C9_DateWindow ==
    [][/\ cutoff' = cutoff
       /\ cutoff = get_cutoff(Now, Days)
       /\ (Iteration /\ last'.ok /\ last'.md.published_dt # None) =>
            IF last'.md.published_dt[1] >= cutoff
            THEN Retains
            ELSE /\ parsed_articles' = parsed_articles
                 /\ skipped_by_reason' = Inc(skipped_by_reason, "older_than_window")]_vars

\* A page published exactly at the cutoff was retained.
C9_Witness ==
    /\ last.outcome = "retained"
    /\ last.md.published_dt = Some(cutoff)
    /\ parsed_articles[Len(parsed_articles)].url = last.cu

\* C10: a status-200 page on an article path, without forbidden token and
\* without publish date, is retained with date_missing and no date;
\* date_missing_count goes up by one and no skip reason is counted.
C10_MissingDateRetained ==
    [][(/\ Iteration
        /\ last'.res # None
        /\ last'.res[1].status_code = 200
        /\ HasPathHint(last'.cu)
        /\ ~Mentions(last'.md, FORBIDDEN_PAGE_TOKENS)
        /\ last'.md.published_dt = None) =>
            /\ Retains
            /\ parsed_articles'[Len(parsed_articles')].date_missing
            /\ parsed_articles'[Len(parsed_articles')].date = None
            /\ counters'.date_missing_count = counters.date_missing_count + 1]_vars

\* A page with a body and without a date was retained.
C10_Witness ==
    /\ last.outcome = "retained"
    /\ ~last.res[1].text.empty
    /\ last.md.published_dt = None
    /\ parsed_articles[Len(parsed_articles)].date_missing


\* sum(counter.values()) over the given keys.
RECURSIVE SumOver(_, _)
SumOver(counter, keys) ==
    IF keys = {} THEN 0
    ELSE LET key == CHOOSE k \in keys : TRUE
         IN counter[key] + SumOver(counter, keys \ {key})

\* The number of skips counted so far, under any reason.
TotalSkipped == SumOver(skipped_by_reason, Reasons)

\* C11: a run in which every fetch returned None ends with no article and with
\* at least one skip reason counted.
C11_FailedRunIsExplained ==
    (pc = "done" /\ ~answered) => (parsed_articles = <<>> /\ TotalSkipped > 0)


\* The URLs discovered for a source, on its homepage or on its listing pages.
DiscoveredOf(source) == discovered_home[source] \cup discovered_fb[source]

\* C12: at the end of the run the discovered URLs of both sources and the feed's
\* articles are as many as the articles retained plus the skips counted.
C12_EveryRejectionCounted ==
    pc = "done" =>
       Cardinality(DiscoveredOf(MusicWeek)) + Cardinality(DiscoveredOf(Mbw)) + Len(mbw_articles)
          = Len(parsed_articles) + TotalSkipped


\* C13: an iteration whose fetch returns None counts one
\* fetch_failed_or_robots_block, appends no article and moves to the next
\* candidate of the same list; whatever the fetches return, the loop reaches the
\* end of the list and the run goes on to its end.
C13_FetchFailureIsolated ==
    /\ [][(pc = "loop" /\ fetch_log' # fetch_log /\ last'.res = None) =>
             /\ skipped_by_reason' = Inc(skipped_by_reason, "fetch_failed_or_robots_block")
             /\ parsed_articles' = parsed_articles
             /\ mw_candidates' = mw_candidates
             /\ pc' = "loop" /\ pos' = pos + 1]_vars
    /\ <>(pc = "done" /\ pos = Len(mw_candidates) + 1)

\* The run ended after a failed fetch that was followed by a retained candidate.
C13_Witness ==
    /\ pc = "done"
    /\ skipped_by_reason["fetch_failed_or_robots_block"] = 1
    /\ last.outcome = "retained"
    /\ Len(mw_candidates) = 2


\* The host of the netloc is the domain of the source or ends with it.
HostEndsWithDomain(source, netloc) ==
    /\ netloc # EmptyStr
    /\ netloc[Len(netloc)] \in
          (IF source = MusicWeek THEN {"musicweek.com", "www.musicweek.com"}
           ELSE {"www.musicbusinessworldwide.com"})

\* The URL passes the three tests of eligibility for a Music Week candidate.
Eligible(url) ==
    /\ \A token \in BLOCKLIST_TOKENS : ~HasToken(Lower(url), token)
    /\ HostEndsWithDomain(MusicWeek, Lower(urlparse(url).netloc))
    /\ \E seg \in MUSICWEEK_PATTERNS : HasSegment(Lower(urlparse(url).path), seg)

\* C14: the candidates are the eligible ones of the discovered URLs, sorted and
\* cut to the maximum, and no other URL is fetched as a candidate.
C14_CandidatesAreTheEligibleUrls ==
    pc \in {"loop", "done"} =>
       /\ mw_candidates =
             Take(Sorted({u \in DiscoveredOf(MusicWeek) : Eligible(u)}), max_per_source)
       /\ \A i \in 1..Len(CandidateFetches) :
             \E u \in DiscoveredOf(MusicWeek) :
                Eligible(u) /\ canonicalize_url(u) = CandidateFetches[i][2]


\* The last listing page fetched was one beyond page 1 and was answered 404.
PaginationEnded == fb_res # None /\ fb_res[1].status_code = 404 /\ pos > 2

\* C15: after a listing page beyond page 1 was answered 404 no further listing
\* page is fetched, and the links found so far are kept.
C15_PaginationStopsAt404 ==
    [][(pc = "fallback" /\ PaginationEnded) =>
          /\ fetch_log' = fetch_log \/ fetch_log'[Len(fetch_log')][1] # "listing"
          /\ discovered_fb[MusicWeek] \subseteq discovered_fb'[MusicWeek]]_vars


\* The lines of the summary without their "- ", and the lines after the title.
BulletLines(out) == [i \in 1..Len(Split(out, "\n")) |-> From(Split(out, "\n")[i], 3)]
SummaryLines == BulletLines(s_out)
SummaryRest == IF s_title # EmptyStr THEN Tail(SummaryLines) ELSE SummaryLines

\* The title, when there is one, and the sentences of the excerpt, in their order.
SummarySentences ==
    (IF s_title # EmptyStr THEN <<s_title>> ELSE <<>>) \o split_sentences(s_excerpt)

\* The places of a list whose element equals no earlier one when case is ignored,
\* and the list of the elements at these places.
FirstPlaces(list) ==
    {i \in 1..Len(list) : \A j \in 1..(i - 1) : Lower(list[j]) # Lower(list[i])}
WithoutRepeats(list) ==
    [k \in 1..Cardinality(FirstPlaces(list)) |->
        list[CHOOSE i \in FirstPlaces(list) :
                Cardinality({j \in FirstPlaces(list) : j <= i}) = k]]

\* C16 as stated: the first line is the title when there is one; the lines are
\* the first ones of the title and the sentences of the excerpt, in their order
\* and without a repeat when case is ignored; at most N of them follow the title.
C16_TitleThenUpToNSentences ==
    s_pc = "built" =>
       /\ s_title # EmptyStr => SummaryLines[1] = s_title
       /\ SummaryLines = Take(WithoutRepeats(SummarySentences), Len(SummaryLines))
       /\ Len(SummaryRest) <= s_bullets

\* C16, amended: the lines are the first max(2, N) of the title, when there is
\* one, and the sentences of the excerpt, in their order and without a repeat
\* when case is ignored; with neither title nor sentence the summary is the one
\* line "No summary available.".
C16_FirstMaxTwoNLines ==
    s_pc = "built" =>
       /\ s_title # EmptyStr => SummaryLines[1] = s_title
       /\ SummaryLines =
             IF SummarySentences = <<>> THEN << <<"No summary available.">> >>
             ELSE Take(WithoutRepeats(SummarySentences), MaxOf({2, s_bullets}))

\* A summary was built of a title and an excerpt whose first sentence repeats
\* the title in lower case: the repeat is left out.
C16_Witness ==
    /\ s_pc = "built"
    /\ s_title = <<"A", ".">> /\ s_excerpt = <<"a", ".", " ", "!">>
    /\ SummaryLines = << <<"A", ".">>, <<"!">> >>


\* The articles of the list that are of the given source.
ArticlesOf(source) == SelectSeq(parsed_articles, LAMBDA article : article.source = source)

\* C17: no more candidates are fetched, and of no source more articles are
\* retained, than the per-source maximum.
C17_AtMostMaxPerSource ==
    /\ Len(CandidateFetches) <= max_per_source
    /\ pos <= max_per_source + 1 \/ pc # "loop"
    /\ \A source \in {MusicWeek, Mbw} : Len(ArticlesOf(source)) <= max_per_source


\* C18: in the candidate loop and after it, the candidates processed are as many
\* as the skips counted plus the Music Week articles retained, and the two
\* counters of fetched pages equal the candidates processed that were neither
\* duplicates nor failed fetches; at the end kept_articles is the feed's articles
\* plus the Music Week articles retained; an iteration raises by one either one
\* skip reason or retained_musicweek_articles, and changes no other of them.
C18_CountersConserved ==
    /\ [](pc \in {"loop", "done"} =>
            /\ pos - 1 = TotalSkipped + counters.retained_musicweek_articles
            /\ counters.fetched_pages = counters.fetched_musicweek_pages
            /\ counters.fetched_pages =
                  pos - 1 - skipped_by_reason["duplicate_url"]
                          - skipped_by_reason["fetch_failed_or_robots_block"]
            /\ pc = "done" =>
                  counters.kept_articles =
                     counters.mbw_rss_entries + counters.retained_musicweek_articles)
    /\ [][Iteration =>
            \/ /\ \E reason \in Reasons : skipped_by_reason' = Inc(skipped_by_reason, reason)
               /\ counters'.retained_musicweek_articles = counters.retained_musicweek_articles
            \/ /\ skipped_by_reason' = skipped_by_reason
               /\ counters'.retained_musicweek_articles =
                     counters.retained_musicweek_articles + 1]_vars

\* A run ended with a feed article, a retained Music Week article and a skip.
C18_Witness ==
    /\ pc = "done"
    /\ counters.mbw_rss_entries >= 1
    /\ counters.retained_musicweek_articles >= 1
    /\ TotalSkipped >= 1
    /\ counters.kept_articles = Len(parsed_articles)


\* The call that just ended was served from the cache.
ServedFromCache == f_now' = f_now /\ f_res' # None /\ f_res'[1].from_cache

\* C19: a file of the cache is written only with the body, not empty, of a
\* network response with a status below 400; a result served from the cache
\* comes from a file younger than 24 hours, with from_cache set, status 200 and
\* the body of the file; its status is the one of the response the file was
\* written from.
C19_CacheKeepsStatus ==
    [][/\ f_cache' # f_cache =>
             /\ f_res' # None /\ ~f_res'[1].from_cache
             /\ f_res'[1].status_code < 400 /\ ~f_res'[1].text.empty
             /\ f_cache'[f_res'[1].url] = Some([text |-> f_res'[1].text, mtime |-> f_now])
       /\ ServedFromCache =>
             /\ IsFresh(file_age_hours(f_cache, f_res'[1].url, f_now))
             /\ f_res'[1].status_code = 200
             /\ f_res'[1].text = f_cache[f_res'[1].url][1].text
             /\ f_res'[1].status_code = f_origin[f_res'[1].url]]_vars

=============================================================================
